---- MODULE Spec2Model ----
(***************************************************************************)
(* The authentication / session lifecycle of the FastAPI boilerplate:      *)
(* the request-gating middleware (src/middleware.py), the auth endpoints   *)
(* and use cases (src/app/auth), the user store and the Redis session      *)
(* cache.  One request is one record of `req`; an action is the code a     *)
(* request runs between two suspension points (awaits on the store or the  *)
(* cache).  An answered request stays in its slot, pc = "done", until the   *)
(* client has taken the response.                                          *)
(***************************************************************************)
EXTENDS Integers, Sequences, FiniteSets, TLC

VARIABLES users, cache, now, req, issued, session

vars == <<users, cache, now, req, issued, session>>

(* ------------------------------ bounds --------------------------------- *)
\* requests that may be in flight at once
MaxReq == 1
\* the clock runs from tick 0 to tick MaxTick
MaxTick == 1
\* minutes of wall-clock time per tick
TickMinutes == 20
\* registrations that may be in flight at once
MaxRegister == 2
\* session requests (login, refresh, logout) that may be in flight at once
MaxSession == 2

Req == 1..MaxReq
LoginIds == {"alice", "bob"}
Emails == {"a@x.com", "b@x.com"}
Passwords == {"Passw0rd!", "WrongPass!"}
UserNames == {"User"}
UserTypes == {1}

(* ------------------------- program constants --------------------------- *)
HTTP_500 == 500
HTTP_400 == 400
HTTP_401 == 401
HTTP_404 == 404
HTTP_200 == 200
HTTP_422 == 422
JWT_ACCESS_TOKEN_EXPIRE_MINUTES == 15
JWT_REFRESH_TOKEN_EXPIRE_MINUTES == 3000

NOT_AUTHORIZATION == "4010001"
EXPIRE_JWT_TOKEN == "4010002"
NOT_FOUND_USER == "4010003"
BAD_PASSWORD == "4010004"
DUPLICATE_USER == "4010005"
INVALID_JWT_TOKEN == "4010006"
VALIDATION_ERROR == "4000001"
INTERNAL_SQL_ERROR == "5000001"
INTERNAL_QUERY_ERROR == "5000002"

\* config["JWT_ACCESS_SECRET_KEY"], config["JWT_REFRESH_SECRET_KEY"], and a
\* key the server does not hold
JWT_ACCESS_SECRET_KEY == "access"
JWT_REFRESH_SECRET_KEY == "refresh"
OtherKey == "other"
REDIS_EXPIRE_TIME == "REDIS_EXPIRE_TIME"

\* Python's None for a string field
NoneStr == "None"

(* ------------------------------ routes --------------------------------- *)
\* a URL path is the sequence of its segments
LoginUrl == <<"api", "v1", "auth", "login">>
RegisterUrl == <<"api", "v1", "auth", "register">>
LogoutUrl == <<"api", "v1", "auth", "logout">>
RefreshUrl == <<"api", "v1", "auth", "refresh_token">>
HealthUrl == <<"api", "v1", "health">>
\* a path under the API prefix that no router serves
OtherUrl == <<"api", "v1", "users", "me">>
Urls == {LoginUrl, RegisterUrl, LogoutUrl, RefreshUrl, HealthUrl, OtherUrl}

\* re.match(pattern, path): the pattern is an alternation of path prefixes
url_pattern_check(path, pattern) ==
    \E p \in pattern : Len(p) <= Len(path) /\ SubSeq(path, 1, Len(p)) = p

\* "^(/docs|/redoc|/api/v1/auth)"
PublicPattern == {<<"docs">>, <<"redoc">>, <<"api", "v1", "auth">>}
\* ["/", "/openapi.json"]
PublicExact == {<< >>, <<"openapi.json">>}

\* the middleware's routing decision: TRUE when the request is passed to
\* call_next without a token check
PublicBypass(url) ==
    IF url = RefreshUrl THEN FALSE
    ELSE url_pattern_check(url, PublicPattern) \/ url \in PublicExact

(* ------------------------------ tokens --------------------------------- *)
NoClaims == [user_id |-> 0, login_id |-> NoneStr, user_name |-> NoneStr, user_type |-> 0]
\* no header / no cookie (None)
NoToken == [form |-> "absent", key |-> "-", claims |-> NoClaims, exp |-> 0]
\* a string that is no JWT ("invalid.token.here")
Malformed == [form |-> "malformed", key |-> "-", claims |-> NoClaims, exp |-> 0]

NowMinutes(t) == t * TickMinutes

\* app.auth.util.jwt.create_access_token: a JWT over the claims, signed with
\* the given key, expiring `expire` minutes after the time of issue
create_access_token(jwt_secret_key, user_id, login_id, user_name, user_type, expire, t) ==
    [form |-> "jwt", key |-> jwt_secret_key,
     claims |-> [user_id |-> user_id, login_id |-> login_id,
                 user_name |-> user_name, user_type |-> user_type],
     exp |-> NowMinutes(t) + expire]

\* jose.jwt.decode(token, key): the signature is verified first, then exp
JwtDecode(token, key, t) ==
    IF token.form # "jwt" \/ token.key # key
    THEN [err |-> "JWTError", payload |-> NoClaims]
    ELSE IF token.exp < NowMinutes(t)
    THEN [err |-> "ExpiredSignatureError", payload |-> NoClaims]
    ELSE [err |-> "", payload |-> token.claims]

\* a token signed with a key other than the server's
ForgedTokens ==
    {[form |-> "jwt", key |-> OtherKey,
      claims |-> [user_id |-> 1, login_id |-> "alice", user_name |-> "User", user_type |-> 1],
      exp |-> NowMinutes(MaxTick) + JWT_REFRESH_TOKEN_EXPIRE_MINUTES]}

(* ----------------------------- exceptions ------------------------------ *)
APIClasses == {"APIException", "NotAuthorization", "ExpireJwtToken", "NotFoundUserEx",
               "BadPassword", "DuplicateUserEx", "InvalidJwtToken", "InternalSqlEx",
               "InternalQuerryEx", "ValidationError"}

Exc(cls, status_code, code, msg) ==
    [cls |-> cls, status_code |-> status_code, code |-> code, msg |-> msg]

APIException == Exc("APIException", HTTP_500, "0000", "")
NotAuthorization == Exc("NotAuthorization", HTTP_401, NOT_AUTHORIZATION, "Not Authorization")
ExpireJwtToken == Exc("ExpireJwtToken", HTTP_401, EXPIRE_JWT_TOKEN, "Expire JWT Token")
NotFoundUserEx == Exc("NotFoundUserEx", HTTP_401, NOT_FOUND_USER, "user not found")
BadPassword == Exc("BadPassword", HTTP_401, BAD_PASSWORD, "Bad password")
DuplicateUserEx(user_id) == Exc("DuplicateUserEx", HTTP_401, DUPLICATE_USER, user_id)
InvalidJwtToken == Exc("InvalidJwtToken", HTTP_401, INVALID_JWT_TOKEN, "Invalid JWT Token")
InternalSqlEx == Exc("InternalSqlEx", HTTP_500, INTERNAL_SQL_ERROR, "SQL error")
InternalQuerryEx == Exc("InternalQuerryEx", HTTP_500, INTERNAL_QUERY_ERROR, "Query error")
ValidationError(msg) == Exc("ValidationError", HTTP_400, VALIDATION_ERROR, msg)

\* exceptions that are no APIException: raised by libraries and by Python
JWTError == Exc("JWTError", 0, "", "Signature verification failed.")
ExpiredSignatureError == Exc("ExpiredSignatureError", 0, "", "Signature has expired.")
ValueError == Exc("ValueError", 0, "", "malformed node or string: None")
AttributeError == Exc("AttributeError", 0, "", "'NoneType' object has no attribute 'get'")
NoExc == Exc("", 0, "", "")

\* a handler that passes the text of the exception on: APIException(msg=str(ex))
exception_handler_str(error) ==
    IF error.cls \notin APIClasses
    THEN [cls |-> "APIException", status_code |-> 500, code |-> "0000", msg |-> error.msg]
    ELSE error

\* middleware.exception_handler
exception_handler(error) ==
    LET e1 == IF error.cls = "OperationalError" THEN InternalSqlEx ELSE error
    IN  IF e1.cls \notin APIClasses THEN APIException ELSE e1

\* the JSON content of a response that is no error: a dict, here the empty one
NoBody == [k \in {} |-> ""]

\* the JSON error response built from the handled exception
ErrorResponse(error) ==
    LET e == exception_handler(error)
    IN  [status_code |-> e.status_code, code |-> e.code, msg |-> e.msg, body |-> NoBody]

OkResponse(msg) == [status_code |-> HTTP_200, code |-> "", msg |-> msg, body |-> NoBody]
NoResponse == [status_code |-> 0, code |-> "", msg |-> "", body |-> NoBody]

\* the fields of the response models
ResponseLoginModel ==
    {"user_id", "login_id", "user_name", "email", "user_type", "token_type",
     "access_token", "refresh_token"}
ResponseTokenModel == {"token_type", "access_token", "refresh_token"}

\* ResponsJson.extract_response_fields: the entity's fields the model names
extract_response_fields(response_model, entity) ==
    [k \in response_model \cap DOMAIN entity |-> entity[k]]

(* --------------------------- user entities ----------------------------- *)
\* Python's None for the password field; a bcrypt hash is <<"bcrypt", plain>>
NoPassword == << >>

UserEntity(user_id, login_id, password, user_name, email, user_type, token_type, access_token, refresh_token) ==
    [user_id |-> user_id, login_id |-> login_id, password |-> password,
     user_name |-> user_name, email |-> email, user_type |-> user_type,
     token_type |-> token_type, access_token |-> access_token,
     refresh_token |-> refresh_token]

\* an entity built from the dict without its e-mail address
from_dict_no_email(d) ==
    UserEntity(d.user_id, d.login_id, NoPassword, d.user_name, NoneStr, d.user_type,
               NoneStr, d.access_token, d.refresh_token)

\* UserEntity.from_dict(d) for the dict the session cache holds: the fields
\* the dict lacks keep their default, None
from_dict(d) ==
    UserEntity(d.user_id, d.login_id, NoPassword, d.user_name, d.email, d.user_type,
               NoneStr, d.access_token, d.refresh_token)

\* UserEntity.to_dict
to_dict(e) == e

\* Repository._to_entity: a row of the user table as an entity
to_entity(row) ==
    UserEntity(row.user_id, row.login_id, row.password, row.user_name, row.email,
               row.user_type, NoneStr, NoToken, NoToken)

(* ------------------------------ user store ----------------------------- *)
\* CryptContext(schemes=["bcrypt"]).hash
Hash(plain) == <<"bcrypt", plain>>

\* CryptContext.verify: raises on a value that is no bcrypt hash
PwdVerify(plain, hashed) ==
    IF Len(hashed) # 2 \/ hashed[1] # "bcrypt" THEN "raise"
    ELSE IF hashed[2] = plain THEN "true" ELSE "false"

\* the verification of the earlier revision: a mismatch is BadPassword too
verify_password_distinct(plain_password, hashed_password) ==
    IF PwdVerify(plain_password, hashed_password) = "true"
    THEN [exc |-> NoExc, ok |-> TRUE]
    ELSE [exc |-> BadPassword, ok |-> FALSE]

\* AuthService.__verify_password: any exception of the verifier is BadPassword
verify_password(plain_password, hashed_password) ==
    LET v == PwdVerify(plain_password, hashed_password)
    IN  IF v = "raise" THEN [exc |-> BadPassword, ok |-> FALSE]
        ELSE [exc |-> NoExc, ok |-> (v = "true")]

\* Repository.find_by_login_id: << >> for None, <<entity>> otherwise
find_by_login_id(store, login_id) ==
    LET hits == {i \in 1..Len(store) : store[i].login_id = login_id}
    IN  IF hits = {} THEN << >>
        ELSE <<to_entity(store[CHOOSE i \in hits : \A j \in hits : i <= j])>>

\* an existence check that finds nothing
exists_by_nothing(store, login_id) == FALSE

exists_by_login_id(store, login_id) == \E i \in 1..Len(store) : store[i].login_id = login_id

exists_by_email(store, email) == \E i \in 1..Len(store) : store[i].email = email

\* the user table's uniqueness constraints on login_id and email
UniqueViolation(store, user_data) ==
    \E i \in 1..Len(store) :
        store[i].login_id = user_data.login_id \/ store[i].email = user_data.email

\* Repository.save: the insert; any exception becomes InternalQuerryEx
save(store, user_data) ==
    IF UniqueViolation(store, user_data)
    THEN [exc |-> InternalQuerryEx, store |-> store, user_id |-> 0]
    ELSE [exc |-> NoExc,
          store |-> Append(store, [user_id |-> Len(store) + 1,
                                   login_id |-> user_data.login_id,
                                   password |-> user_data.password,
                                   user_name |-> user_data.user_name,
                                   email |-> user_data.email,
                                   user_type |-> user_data.user_type]),
          user_id |-> Len(store) + 1]

\* an authenticate that returns the row as it found it
authenticate_uncleared(store, user_id, user_passwd) ==
    LET found == find_by_login_id(store, user_id)
    IN  IF found = << >> THEN [exc |-> NotFoundUserEx, ent |-> << >>]
        ELSE IF found[1].password = NoPassword
        THEN [exc |-> ValidationError("Password is required"), ent |-> << >>]
        ELSE IF PwdVerify(user_passwd, found[1].password) # "true"
        THEN [exc |-> NotFoundUserEx, ent |-> << >>]
        ELSE [exc |-> NoExc, ent |-> <<found[1]>>]

\* an authenticate that takes any password for a row it finds
authenticate_unverified(store, user_id, user_passwd) ==
    LET found == find_by_login_id(store, user_id)
    IN  IF found = << >> THEN [exc |-> NotFoundUserEx, ent |-> << >>]
        ELSE [exc |-> NoExc, ent |-> <<[found[1] EXCEPT !.password = NoPassword]>>]

\* AuthService.authenticate
authenticate(store, user_id, user_passwd) ==
    LET found == find_by_login_id(store, user_id)
    IN  IF found = << >> THEN [exc |-> NotFoundUserEx, ent |-> << >>]
        ELSE IF found[1].password = NoPassword
        THEN [exc |-> ValidationError("Password is required"), ent |-> << >>]
        ELSE LET v == verify_password(user_passwd, found[1].password)
             IN  IF v.exc # NoExc THEN [exc |-> v.exc, ent |-> << >>]
                 ELSE IF ~v.ok THEN [exc |-> NotFoundUserEx, ent |-> << >>]
                 ELSE IF found[1].login_id = NoneStr
                 THEN [exc |-> ValidationError("Login ID is required"), ent |-> << >>]
                 ELSE [exc |-> NoExc, ent |-> <<[found[1] EXCEPT !.password = NoPassword]>>]

\* TokenService.get_token at time t: the entity with a fresh token pair
get_token(user_entity, t) ==
    [user_entity EXCEPT
        !.access_token = create_access_token(JWT_ACCESS_SECRET_KEY, user_entity.user_id,
                             user_entity.login_id, user_entity.user_name,
                             user_entity.user_type, JWT_ACCESS_TOKEN_EXPIRE_MINUTES, t),
        !.refresh_token = create_access_token(JWT_REFRESH_SECRET_KEY, user_entity.user_id,
                             user_entity.login_id, user_entity.user_name,
                             user_entity.user_type, JWT_REFRESH_TOKEN_EXPIRE_MINUTES, t),
        !.token_type = "bearer"]

\* TokenService.get_token, lines 37-41: the object passed in, after the
\* call; the tokens are assigned to its attributes and it is the object
\* returned
get_token_argument(user_entity, t) == get_token(user_entity, t)

(* ----------------------------- session cache --------------------------- *)
\* one key for every user: that of alice
CacheKey_shared(login_id) == <<"cache_user_info_", "alice">>

\* f"cache_user_info_{login_id}"
CacheKey(login_id) == <<"cache_user_info_", login_id>>

\* a cached dict that carries every field of the entity
CacheValue_whole(user) == [repr |-> user]

\* str({...}) of the cached dict, and ast.literal_eval of that string
CacheValue(user) ==
    [repr |-> [user_id |-> user.user_id, login_id |-> user.login_id,
               user_name |-> user.user_name, user_type |-> user.user_type,
               email |-> user.email, access_token |-> user.access_token,
               refresh_token |-> user.refresh_token]]

literal_eval(s) == s.repr

\* redis.set(name, value, keepttl=True): the entry keeps the time to live
\* it had
RedisSetKeepTtl(c, name, value, ex) ==
    [k \in DOMAIN c \cup {name} |->
        IF k = name
        THEN [value |-> value, ex |-> IF name \in DOMAIN c THEN "KEEPTTL" ELSE ex]
        ELSE c[k]]

\* redis.set(name, value, ex)
RedisSet(c, name, value, ex) ==
    [k \in DOMAIN c \cup {name} |-> IF k = name THEN [value |-> value, ex |-> ex] ELSE c[k]]

\* redis.delete(name)
RedisDelete(c, name) == [k \in DOMAIN c \ {name} |-> c[k]]

\* redis.get(name): << >> for None
RedisGet(c, name) == IF name \in DOMAIN c THEN <<c[name].value>> ELSE << >>

\* a save that writes field by field and leaves the refresh token of an
\* entry that is there already
save_user_cache_merge(c, user) ==
    LET k == <<"cache_user_info_", user.login_id>>
        old == IF k \in DOMAIN c THEN c[k].value.repr.refresh_token ELSE user.refresh_token
    IN  [x \in DOMAIN c \cup {k} |->
            IF x = k
            THEN [value |-> [repr |-> [user_id |-> user.user_id, login_id |-> user.login_id,
                                       user_name |-> user.user_name,
                                       user_type |-> user.user_type, email |-> user.email,
                                       access_token |-> user.access_token,
                                       refresh_token |-> old]],
                  ex |-> "REDIS_EXPIRE_TIME"]
            ELSE c[x]]

\* a save under the misspelt key of the earlier revision
save_user_cache_cahce(c, user) ==
    RedisSet(c, <<"cahce_user_info_", user.login_id>>, CacheValue(user), REDIS_EXPIRE_TIME)

\* CacheService.save_user_cache (update_user_cache is an alias)
save_user_cache(c, user) ==
    RedisSet(c, CacheKey(user.login_id), CacheValue(user), REDIS_EXPIRE_TIME)

\* UserUseCase.set_user_in_redis: the writer of the older call chain
\* (AuthFacade, UserService)
set_user_in_redis(c, user_entity) ==
    RedisSet(c, <<"cahce_user_info_", user_entity.login_id>>, CacheValue(user_entity),
             REDIS_EXPIRE_TIME)

\* CacheService.get_user_cache
service_get_user_cache(c, login_id) == RedisGet(c, <<"cache_user_info_", login_id>>)

\* CacheService.delete_user_cache
delete_user_cache(c, login_id) == RedisDelete(c, CacheKey(login_id))

\* infrastructure.db.redis.get_user_cache, which the middleware calls
get_user_cache(c, login_id) == RedisGet(c, CacheKey(login_id))

\* a lookup that, on a miss, stores None under the key
CacheAfterGet_store_none(c, login_id) ==
    IF CacheKey(login_id) \in DOMAIN c THEN c
    ELSE RedisSet(c, CacheKey(login_id), [repr |-> NoneStr], REDIS_EXPIRE_TIME)

\* infrastructure.db.redis.get_user_cache, lines 34-49: the cache after the
\* call; redis.get is its only command, a miss returns None and stores nothing
CacheAfterGet(c, login_id) == c

(* ------------------------------ requests ------------------------------- *)
NoForm == [login_id |-> NoneStr, password |-> NoneStr, email |-> NoneStr,
           user_name |-> NoneStr, user_type |-> 0]

\* a request slot that still holds the principal of an earlier request
Idle_kept ==
    [pc |-> "idle", url |-> << >>, hdr |-> NoToken, ckA |-> NoToken, ckR |-> NoToken,
     form |-> NoForm, start |-> 0,
     user |-> <<[user_id |-> 1, login_id |-> "alice", user_name |-> "User",
                 user_type |-> 1, email |-> "a@x.com", access_token |-> NoToken,
                 refresh_token |-> NoToken]>>,
     given |-> << >>, arg |-> << >>, ent |-> << >>, handled |-> FALSE,
     stale |-> FALSE, dup |-> FALSE, gone |-> FALSE, resp |-> NoResponse]

\* a request slot that holds no request
Idle ==
    [pc |-> "idle", url |-> << >>, hdr |-> NoToken, ckA |-> NoToken, ckR |-> NoToken,
     form |-> NoForm, start |-> 0, user |-> << >>, given |-> << >>, arg |-> << >>,
     ent |-> << >>, handled |-> FALSE,
     stale |-> FALSE, dup |-> FALSE, gone |-> FALSE, resp |-> NoResponse]

\* the tokens a client can send: none, a string that is no token, a token a
\* response has handed out, a token signed with a foreign key
TokenInputs == {NoToken, Malformed} \cup issued \cup ForgedTokens

\* the Authorization header and the access_token cookie of a request
CredentialInputs ==
    {<<NoToken, t>> : t \in TokenInputs} \cup {<<Malformed, NoToken>>}

\* the cookie when there is one, else the header
AccessCandidate_cookie(hdr, ckA) == IF ckA.form # "absent" THEN ckA ELSE hdr

\* middleware.py 61-66: the header when there is one, else the cookie
AccessCandidate(hdr, ckA) == IF hdr.form # "absent" THEN hdr ELSE ckA

\* Python truthiness of the candidate: None and "" are false
Truthy(token) == token.form \notin {"absent", "empty"}

\* middleware.py 70-87, up to the cache lookup: the exception raised, or NoExc
VerifyAccess(token, t) ==
    IF Truthy(token)
    THEN LET d == JwtDecode(token, JWT_ACCESS_SECRET_KEY, t)
         IN  IF d.err = "ExpiredSignatureError" THEN ExpireJwtToken
             ELSE IF d.err = "JWTError" THEN JWTError
             ELSE IF d.payload.login_id = NoneStr THEN NotAuthorization
             ELSE NoExc
    ELSE NotAuthorization

\* middleware.py 81-83: literal_eval of the looked-up string, then the test
\* for a missing entry; literal_eval(None) raises ValueError
ResolveUser(user_info) ==
    IF user_info = << >> THEN [exc |-> ValueError, user |-> << >>]
    ELSE [exc |-> NoExc, user |-> <<literal_eval(user_info[1])>>]

\* the login_id a token names, for the session bookkeeping
TokenLogin(token) == IF token.form = "jwt" THEN token.claims.login_id ELSE NoneStr

\* session bookkeeping, kept beside the program: per user, whether the last
\* of login and logout to be answered was a login ("in") or a logout made
\* with the session's access token ("out", with that token)
NoSession == [st |-> "none", tok |-> NoToken]
LoggedIn == [st |-> "in", tok |-> NoToken]
LoggedOut(token) == [st |-> "out", tok |-> token]

\* the token is the access token of a session that has been logged out and
\* whose user has not logged in since
Stale(sess, token) ==
    /\ TokenLogin(token) \in DOMAIN sess
    /\ sess[TokenLogin(token)] = LoggedOut(token)

\* the request carries the access token of the session the cache holds
CarriesSessionToken(c, rq, t) ==
    LET tok == AccessCandidate(rq.hdr, rq.ckA)
    IN  /\ JwtDecode(tok, JWT_ACCESS_SECRET_KEY, t).err = ""
        /\ CacheKey(TokenLogin(tok)) \in DOMAIN c
        /\ literal_eval(c[CacheKey(TokenLogin(tok))].value).access_token = tok

\* the response is sent: the request is answered
Respond(r, rq, resp) ==
    req' = [req EXCEPT ![r] = [rq EXCEPT !.pc = "done", !.resp = resp]]

(* ------------------------------ actions -------------------------------- *)
Init ==
    /\ users = << >>
    /\ cache = [k \in {} |-> NoResponse]
    /\ now = 0
    /\ req = [r \in Req |-> Idle]
    /\ issued = {}
    /\ session = [l \in LoginIds |-> NoSession]

\* what the clients of a specification send: the routes they call, the
\* users they act for and the e-mail addresses they register
Profile(urls, logins, emails) == [urls |-> urls, logins |-> logins, emails |-> emails]

\* the requests a client can send now
RequestInputs(P) ==
    LET blank == [url |-> << >>, hdr |-> NoToken, ckA |-> NoToken, ckR |-> NoToken,
                  form |-> NoForm]
    IN  {[blank EXCEPT !.url = LoginUrl,
                       !.form = [NoForm EXCEPT !.login_id = l, !.password = p]] :
            l \in P.logins, p \in Passwords}
        \cup {[blank EXCEPT !.url = RegisterUrl,
                            !.form = [login_id |-> l, password |-> "Passw0rd!", email |-> m,
                                      user_name |-> n, user_type |-> ut]] :
            l \in P.logins, m \in P.emails, n \in UserNames, ut \in UserTypes}
        \cup {[blank EXCEPT !.url = u, !.hdr = c[1], !.ckA = c[2]] :
            u \in {LogoutUrl, HealthUrl, OtherUrl}, c \in CredentialInputs}
        \cup {[blank EXCEPT !.url = RefreshUrl, !.hdr = c[1], !.ckA = c[2], !.ckR = t] :
            c \in CredentialInputs, t \in TokenInputs \ ForgedTokens}

\* ghost: the store holds a row with the login_id or the e-mail address of
\* the form
Taken(store, form) ==
    \E i \in 1..Len(store) :
        store[i].login_id = form.login_id \/ store[i].email = form.email

\* ghost: the token was handed out by a login or a refresh, and the store
\* holds no row any more for the user it names
Gone(store, tokens, token) ==
    /\ token \in tokens
    /\ \A i \in 1..Len(store) : store[i].login_id # token.claims.login_id

\* dispatch_middlewares, lines 24-88 up to the first await on the cache, for
\* one request in
Dispatch(r, in) ==
    LET tok == AccessCandidate(in.hdr, in.ckA)
        rq == [Idle EXCEPT !.url = in.url, !.hdr = in.hdr, !.ckA = in.ckA,
                           !.ckR = in.ckR, !.form = in.form, !.start = now,
                           !.stale = Stale(session, tok),
                           !.dup = in.url = RegisterUrl /\ Taken(users, in.form),
                           !.gone = in.url = RefreshUrl /\ Gone(users, issued, tok)]
        exc == VerifyAccess(tok, now)
    IN  IF PublicBypass(in.url)
        THEN req' = [req EXCEPT ![r] = [rq EXCEPT !.pc = "handler", !.handled = TRUE]]
        ELSE IF exc # NoExc
        THEN Respond(r, rq, ErrorResponse(exc))
        ELSE req' = [req EXCEPT ![r] = [rq EXCEPT !.pc = "mw_cache"]]

\* a request of the profile P arrives
Receive(r, P) ==
    /\ req[r].pc = "idle"
    \* slots are interchangeable: a request takes the lowest free one
    /\ \A q \in DOMAIN req : q < r => req[q].pc # "idle"
    /\ \E in \in {i \in RequestInputs(P) : i.url \in P.urls} : Dispatch(r, in)
    /\ UNCHANGED <<users, cache, now, issued, session>>

\* dispatch_middlewares, lines 80-88: the cache lookup returns
MwCache(r) ==
    /\ req[r].pc = "mw_cache"
    /\ LET rq == req[r]
           login_id == AccessCandidate(rq.hdr, rq.ckA).claims.login_id
           res == ResolveUser(get_user_cache(cache, login_id))
       IN  /\ IF res.exc # NoExc
              THEN Respond(r, rq, ErrorResponse(res.exc))
              ELSE req' = [req EXCEPT ![r] = [rq EXCEPT !.pc = "handler", !.user = res.user,
                                                        !.handled = TRUE]]
           /\ cache' = CacheAfterGet(cache, login_id)
    /\ UNCHANGED <<users, now, issued, session>>

\* login endpoint and LoginUseCase.execute, steps 1-2: the store lookup
\* returns, the password is verified and the tokens are made
HandleLogin(r) ==
    /\ req[r].pc = "handler" /\ req[r].url = LoginUrl
    /\ LET rq == req[r]
           a == authenticate(users, rq.form.login_id, rq.form.password)
           ent == get_token(a.ent[1], now)
       IN  IF a.exc # NoExc
           THEN Respond(r, rq, ErrorResponse(a.exc))
           ELSE /\ req' = [req EXCEPT ![r] = [rq EXCEPT !.pc = "login_save", !.ent = <<ent>>,
                                                        !.given = a.ent,
                                                        !.arg = <<get_token_argument(a.ent[1], now)>>,
                                                        !.user = <<to_dict(a.ent[1])>>]]
    /\ UNCHANGED <<users, cache, now, issued, session>>

\* LoginUseCase.execute, steps 3-4, and the login response with its cookies
LoginSave(r) ==
    /\ req[r].pc = "login_save"
    /\ LET rq == req[r]
           ent == rq.ent[1]
       IN  /\ cache' = save_user_cache(cache, ent)
           /\ issued' = issued \cup {ent.access_token, ent.refresh_token}
           /\ session' = [session EXCEPT ![ent.login_id] = LoggedIn]
           /\ Respond(r, rq, [OkResponse("login") EXCEPT
                                  !.body = extract_response_fields(ResponseLoginModel,
                                                                   to_dict(ent))])
    /\ UNCHANGED <<users, now>>

\* refresh_token endpoint and RefreshTokenUseCase.execute, steps 1-2
HandleRefresh(r) ==
    /\ req[r].pc = "handler" /\ req[r].url = RefreshUrl
    /\ LET rq == req[r]
           ent == get_token(from_dict(rq.user[1]), now)
       IN  IF rq.ckR.form = "absent"
           THEN Respond(r, rq, [status_code |-> HTTP_422, code |-> "",
                                msg |-> "Token not in cookie", body |-> NoBody])
           ELSE /\ req' = [req EXCEPT ![r] = [rq EXCEPT !.pc = "refresh_save", !.ent = <<ent>>,
                                                 !.given = <<from_dict(rq.user[1])>>,
                                                 !.arg = <<get_token_argument(from_dict(rq.user[1]), now)>>,
                                                 !.user = <<to_dict(from_dict(rq.user[1]))>>]]
    /\ UNCHANGED <<users, cache, now, issued, session>>

\* RefreshTokenUseCase.execute, steps 3-4, and the response with its cookies
RefreshSave(r) ==
    /\ req[r].pc = "refresh_save"
    /\ LET rq == req[r]
           ent == rq.ent[1]
       IN  /\ cache' = save_user_cache(cache, ent)
           /\ issued' = issued \cup {ent.access_token, ent.refresh_token}
           /\ Respond(r, rq, [OkResponse("refresh") EXCEPT
                                  !.body = extract_response_fields(ResponseTokenModel,
                                                                   to_dict(ent))])
    /\ UNCHANGED <<users, now, session>>

\* logout endpoint and LogoutUseCase.execute; request.state.user is what the
\* middleware left there, and None has no attribute get
HandleLogout(r) ==
    /\ req[r].pc = "handler" /\ req[r].url = LogoutUrl
    /\ LET rq == req[r]
           tok == AccessCandidate(rq.hdr, rq.ckA)
       IN  /\ IF rq.user = << >>
              THEN /\ Respond(r, rq, ErrorResponse(AttributeError))
                   /\ UNCHANGED cache
              ELSE /\ cache' = IF rq.user[1].login_id # NoneStr
                               THEN delete_user_cache(cache, rq.user[1].login_id)
                               ELSE cache
                   /\ Respond(r, rq, OkResponse("Success Logout."))
           /\ session' = IF CarriesSessionToken(cache, rq, rq.start)
                         THEN [session EXCEPT ![TokenLogin(tok)] = LoggedOut(tok)]
                         ELSE session
    /\ UNCHANGED <<users, now, issued>>

\* health endpoint
HandleHealth(r) ==
    /\ req[r].pc = "handler" /\ req[r].url = HealthUrl
    /\ Respond(r, req[r], OkResponse("healthy"))
    /\ UNCHANGED <<users, cache, now, issued, session>>

\* no route matches the path: the router answers 404
HandleNotFound(r) ==
    /\ req[r].pc = "handler" /\ req[r].url = OtherUrl
    /\ Respond(r, req[r], [status_code |-> HTTP_404, code |-> "", msg |-> "Not Found",
                            body |-> NoBody])
    /\ UNCHANGED <<users, cache, now, issued, session>>

\* register endpoint and RegisterUserUseCase.execute, step 1
HandleRegister(r) ==
    /\ req[r].pc = "handler" /\ req[r].url = RegisterUrl
    /\ LET rq == req[r]
       IN  IF exists_by_login_id(users, rq.form.login_id)
           THEN Respond(r, rq, ErrorResponse(DuplicateUserEx(rq.form.login_id)))
           ELSE /\ req' = [req EXCEPT ![r] = [rq EXCEPT !.pc = "reg_email"]]
    /\ UNCHANGED <<users, cache, now, issued, session>>

\* RegisterUserUseCase.execute, steps 2-3
RegisterCheckEmail(r) ==
    /\ req[r].pc = "reg_email"
    /\ LET rq == req[r]
       IN  IF exists_by_email(users, rq.form.email)
           THEN Respond(r, rq, ErrorResponse(DuplicateUserEx(rq.form.email)))
           ELSE /\ req' = [req EXCEPT ![r] = [rq EXCEPT !.pc = "reg_save"]]
    /\ UNCHANGED <<users, cache, now, issued, session>>

\* RegisterUserUseCase.execute, steps 4-5, and the register response
RegisterSave(r) ==
    /\ req[r].pc = "reg_save"
    /\ LET rq == req[r]
           res == save(users, [rq.form EXCEPT !.password = Hash(rq.form.password)])
       IN  /\ users' = res.store
           /\ IF res.exc # NoExc
              THEN Respond(r, rq, ErrorResponse(res.exc))
              ELSE Respond(r, [rq EXCEPT !.ent = <<res.user_id>>],
                           [OkResponse("Success Register.") EXCEPT
                               !.body = [user_id |-> res.user_id,
                                         login_id |-> rq.form.login_id]])
    /\ UNCHANGED <<cache, now, issued, session>>

\* the client has taken the response: the slot is free again
Retire(r) ==
    /\ req[r].pc = "done"
    /\ req' = [req EXCEPT ![r] = Idle]
    /\ UNCHANGED <<users, cache, now, issued, session>>

\* a cache entry lapses: Redis drops a key ex seconds after it was set, and
\* the configured REDIS_EXPIRE_TIME is not part of the source
RedisExpire ==
    /\ \E k \in DOMAIN cache : cache' = RedisDelete(cache, k)
    /\ UNCHANGED <<users, now, req, issued, session>>

\* time passes; a tick is long against the time a request takes, so the
\* clock is read as advancing between requests
Tick ==
    /\ now < MaxTick
    /\ \A r \in DOMAIN req : req[r].pc \in {"idle", "done"}
    /\ now' = now + 1
    /\ UNCHANGED <<users, cache, req, issued, session>>

Step(R, P) ==
    \/ \E r \in R :
        \/ Receive(r, P)
        \/ MwCache(r)
        \/ HandleLogin(r)
        \/ LoginSave(r)
        \/ HandleRefresh(r)
        \/ RefreshSave(r)
        \/ HandleLogout(r)
        \/ HandleHealth(r)
        \/ HandleNotFound(r)
        \/ HandleRegister(r)
        \/ RegisterCheckEmail(r)
        \/ RegisterSave(r)
        \/ Retire(r)
    \/ RedisExpire
    \/ Tick

\* one user, every route
Next == Step(Req, Profile(Urls, {"alice"}, {"a@x.com"}))

Spec == Init /\ [][Next]_vars

(* ---------------------- login over any user table ---------------------- *)
\* what the password column of a row can hold: the bcrypt hash registration
\* writes, nothing, or a value that is no bcrypt hash; AuthService has a
\* branch for each (authentication_service.py 38-41, 70-71)
StoredPasswords == {Hash("Passw0rd!"), NoPassword, <<"legacy", "Passw0rd!">>}

\* the user tables the login is run against: each of alice and bob has a
\* row or not
StoreInputs ==
    LET row(id, l, m, pw) == [user_id |-> id, login_id |-> l, password |-> pw,
                              user_name |-> "User", email |-> m, user_type |-> 1]
        a == {<<row(1, "alice", "a@x.com", pw)>> : pw \in StoredPasswords}
    IN  {<< >>} \cup a
        \cup {<<row(1, "bob", "b@x.com", pw)>> : pw \in StoredPasswords}
        \cup {x \o <<row(2, "bob", "b@x.com", pw)>> : x \in a, pw \in StoredPasswords}

AuthInit ==
    /\ users \in StoreInputs
    /\ cache = [k \in {} |-> NoResponse]
    /\ now = 0
    /\ req = [r \in Req |-> Idle]
    /\ issued = {}
    /\ session = [l \in LoginIds |-> NoSession]

\* logins of alice and bob, with the right and the wrong password
AuthNext ==
    \/ \E r \in Req :
        \/ Receive(r, Profile({LoginUrl}, LoginIds, Emails))
        \/ HandleLogin(r)
        \/ LoginSave(r)
        \/ Retire(r)
    \/ Tick

AuthSpec == AuthInit /\ [][AuthNext]_vars

(* ---------------------- concurrent registrations ----------------------- *)
RegisterReq == 1..MaxRegister

RegisterInit ==
    /\ users = << >>
    /\ cache = [k \in {} |-> NoResponse]
    /\ now = 0
    /\ req = [r \in RegisterReq |-> Idle]
    /\ issued = {}
    /\ session = [l \in LoginIds |-> NoSession]

\* registrations of alice and bob under either e-mail address
RegisterNext ==
    \E r \in RegisterReq :
        \/ Receive(r, Profile({RegisterUrl}, LoginIds, Emails))
        \/ HandleRegister(r)
        \/ RegisterCheckEmail(r)
        \/ RegisterSave(r)
        \/ Retire(r)

RegisterSpec == RegisterInit /\ [][RegisterNext]_vars

(* ------------------- refresh after the user is deleted ----------------- *)
\* the user table after alice has registered
AliceRegistered ==
    <<[user_id |-> 1, login_id |-> "alice", password |-> Hash("Passw0rd!"),
       user_name |-> "User", email |-> "a@x.com", user_type |-> 1]>>

DeletedInit ==
    /\ users = AliceRegistered
    /\ cache = [k \in {} |-> NoResponse]
    /\ now = 0
    /\ req = [r \in Req |-> Idle]
    /\ issued = {}
    /\ session = [l \in LoginIds |-> NoSession]

\* DELETE FROM users WHERE login_id = :login_id, run on the database beside
\* the application
DeleteUser(login_id) ==
    /\ exists_by_login_id(users, login_id)
    /\ users' = SelectSeq(users, LAMBDA row : row.login_id # login_id)
    /\ UNCHANGED <<cache, now, req, issued, session>>

\* alice logs in and refreshes; her row is deleted at some time
DeletedNext ==
    \/ \E r \in Req :
        \/ Receive(r, Profile({LoginUrl, RefreshUrl}, {"alice"}, {"a@x.com"}))
        \/ MwCache(r)
        \/ HandleLogin(r)
        \/ LoginSave(r)
        \/ HandleRefresh(r)
        \/ RefreshSave(r)
        \/ Retire(r)
    \/ DeleteUser("alice")
    \/ Tick

DeletedSpec == DeletedInit /\ [][DeletedNext]_vars

(* ----------------------- concurrent session requests ------------------ *)
SessionReq == 1..MaxSession

\* the user table after alice and bob have registered
BothRegistered ==
    AliceRegistered
    \o <<[user_id |-> 2, login_id |-> "bob", password |-> Hash("Passw0rd!"),
          user_name |-> "User", email |-> "b@x.com", user_type |-> 1]>>

SessionInit ==
    /\ users = BothRegistered
    /\ cache = [k \in {} |-> NoResponse]
    /\ now = 0
    /\ req = [r \in SessionReq |-> Idle]
    /\ issued = {}
    /\ session = [l \in LoginIds |-> NoSession]

\* alice and bob log in, refresh and log out side by side, within one
\* tick of the clock
SessionNext ==
    \E r \in SessionReq :
        \/ Receive(r, Profile({LoginUrl, RefreshUrl, LogoutUrl}, LoginIds, Emails))
        \/ MwCache(r)
        \/ HandleLogin(r)
        \/ LoginSave(r)
        \/ HandleRefresh(r)
        \/ RefreshSave(r)
        \/ HandleLogout(r)
        \/ Retire(r)

SessionSpec == SessionInit /\ [][SessionNext]_vars

(* --------------------------- concurrent logins ------------------------- *)
\* time passes, also while requests are in flight
Clock ==
    /\ now < MaxTick
    /\ now' = now + 1
    /\ UNCHANGED <<users, cache, req, issued, session>>

\* logins of alice side by side while the clock runs: logins that overlap
\* can carry tokens made at different times
LoginsNext ==
    \/ \E r \in SessionReq :
        \/ Receive(r, Profile({LoginUrl}, {"alice"}, {"a@x.com"}))
        \/ HandleLogin(r)
        \/ LoginSave(r)
        \/ Retire(r)
    \/ Clock

LoginsSpec == SessionInit /\ [][LoginsNext]_vars

(* ------------------ the gate beside login and refresh ------------------ *)
\* alice logs in, refreshes and calls a route behind the gate, side by
\* side, while the clock runs
GateNext ==
    \/ \E r \in SessionReq :
        \/ Receive(r, Profile({LoginUrl, RefreshUrl, OtherUrl}, {"alice"}, {"a@x.com"}))
        \/ MwCache(r)
        \/ HandleLogin(r)
        \/ LoginSave(r)
        \/ HandleRefresh(r)
        \/ RefreshSave(r)
        \/ HandleNotFound(r)
        \/ Retire(r)
    \/ Clock

GateSpec == SessionInit /\ [][GateNext]_vars

(* ------------------- the components of the session cache -------------- *)
\* the user table after one or after two registrations
CacheInit ==
    /\ users \in {AliceRegistered, BothRegistered}
    /\ cache = [k \in {} |-> NoResponse]
    /\ now = 0
    /\ req = [r \in Req |-> Idle]
    /\ issued = {}
    /\ session = [l \in LoginIds |-> NoSession]

\* the entities a writer is handed: an authenticated user with the tokens
\* made for them at time t
Entities(t) ==
    {get_token([to_entity(users[i]) EXCEPT !.password = NoPassword], t) : i \in 1..Len(users)}

\* a call of CacheService.save_user_cache
SaveUserCache ==
    /\ \E u \in Entities(now) : cache' = save_user_cache(cache, u)
    /\ UNCHANGED <<users, now, req, issued, session>>

\* a call of UserUseCase.set_user_in_redis
SetUserInRedis ==
    /\ \E u \in Entities(now) : cache' = set_user_in_redis(cache, u)
    /\ UNCHANGED <<users, now, req, issued, session>>

\* a call of CacheService.delete_user_cache
DeleteUserCache ==
    /\ \E i \in 1..Len(users) : cache' = delete_user_cache(cache, users[i].login_id)
    /\ UNCHANGED <<users, now, req, issued, session>>

CacheNext == SaveUserCache \/ SetUserInRedis \/ DeleteUserCache \/ Clock

CacheSpec == CacheInit /\ [][CacheNext]_vars

(* ------------------------- vocabulary of the claims -------------------- *)
\* the routes named public: registration, login, refresh-token and health
\* check (the documentation routes and the root are not in Urls); every
\* other route is protected, logout among them
PublicSurface == {RegisterUrl, LoginUrl, RefreshUrl, HealthUrl}
ProtectedRoute(url) == url \notin PublicSurface

\* the access token the request presents
Tok(r) == AccessCandidate(req[r].hdr, req[r].ckA)

\* the request has been answered
Answered(r) == req[r].pc = "done"

\* the request was answered with the given error by the middleware, and
\* call_next was not invoked for it
RejectedWith(r, status_code, code) ==
    /\ req[r].resp.status_code = status_code
    /\ req[r].resp.code = code
    /\ ~req[r].handled

\* the request is answered in this step
AnsweredNow(r) == req[r].pc \notin {"idle", "done"} /\ req'[r].pc = "done"

(* -------------------------------- C1 ----------------------------------- *)
\* C1: when a logout request is answered that carries the access token of
\* its user's session, the session-cache entry of that user being present,
\* the cache holds no entry under cache_user_info_<login_id> afterwards.
C1_LogoutRemovesCacheEntry ==
    [][\A r \in Req :
          (/\ req[r].url = LogoutUrl
           /\ AnsweredNow(r)
           /\ CarriesSessionToken(cache, req[r], req[r].start))
          => CacheKey(TokenLogin(Tok(r))) \notin DOMAIN cache']_vars

\* a logout made with the session's access token has been answered
C1_Witness ==
    \E r \in Req :
        /\ Answered(r) /\ req[r].url = LogoutUrl
        /\ TokenLogin(Tok(r)) \in LoginIds
        /\ session[TokenLogin(Tok(r))] = LoggedOut(Tok(r))

(* -------------------------------- C2 ----------------------------------- *)
\* C2: a request to a protected route that presents the access token of a
\* logged-out session, its user not having logged in since and the token
\* still decoding as valid and unexpired, is rejected with an error status
\* and call_next is never invoked for it.
C2_OldTokenRejectedAfterLogout ==
    \A r \in Req :
        (/\ req[r].pc # "idle"
         /\ req[r].stale
         /\ ProtectedRoute(req[r].url)
         /\ JwtDecode(Tok(r), JWT_ACCESS_SECRET_KEY, req[r].start).err = "")
        => /\ ~req[r].handled
           /\ Answered(r) => req[r].resp.status_code >= HTTP_400

\* a protected request with the still-valid token of a logged-out session
\* has been answered
C2_Witness ==
    \E r \in Req :
        /\ Answered(r) /\ req[r].stale /\ ProtectedRoute(req[r].url)
        /\ JwtDecode(Tok(r), JWT_ACCESS_SECRET_KEY, req[r].start).err = ""

(* -------------------------------- C3 ----------------------------------- *)
\* C3: when a request to a protected route is answered whose access token
\* is valid and unexpired and for whose login_id the session cache holds no
\* entry, the answer carries the code NOT_FOUND_USER (4010003) and call_next
\* has not been invoked for the request.
C3_NoCacheEntryIsUserNotFound ==
    [][\A r \in Req :
          (/\ AnsweredNow(r)
           /\ ProtectedRoute(req[r].url)
           /\ req[r].user = << >>
           /\ VerifyAccess(Tok(r), req[r].start) = NoExc
           /\ get_user_cache(cache, TokenLogin(Tok(r))) = << >>)
          => /\ req'[r].resp.code = NOT_FOUND_USER
             /\ ~req'[r].handled]_vars

\* the gate has answered a request with a valid token whose cache lookup
\* found no entry
C3_Witness ==
    \E r \in Req :
        /\ Answered(r) /\ req[r].url = OtherUrl
        /\ VerifyAccess(Tok(r), req[r].start) = NoExc
        /\ req[r].user = << >> /\ ~req[r].handled

(* -------------------------------- C4 ----------------------------------- *)
\* C4: a request to a protected route whose access token is no JWT or
\* carries a signature the access-token secret does not verify is answered
\* with HTTP 401 and the code INVALID_JWT_TOKEN (4010006), and call_next is
\* not invoked for it.
C4_BadTokenIsInvalidToken ==
    \A r \in Req :
        (/\ Answered(r)
         /\ ProtectedRoute(req[r].url)
         /\ Truthy(Tok(r))
         /\ JwtDecode(Tok(r), JWT_ACCESS_SECRET_KEY, req[r].start).err = "JWTError")
        => RejectedWith(r, HTTP_401, INVALID_JWT_TOKEN)

\* the gate has answered a request whose token failed signature verification
C4_Witness ==
    \E r \in Req :
        /\ Answered(r) /\ req[r].url = OtherUrl /\ ~req[r].handled
        /\ Truthy(Tok(r))
        /\ JwtDecode(Tok(r), JWT_ACCESS_SECRET_KEY, req[r].start).err = "JWTError"

(* -------------------------------- C5 ----------------------------------- *)
\* C5: a request to a protected route whose access token is signed with the
\* access-token secret and past its expiry is answered with HTTP 401 and
\* the code EXPIRE_JWT_TOKEN (4010002), and call_next is not invoked for it.
C5_ExpiredTokenIsExpiredToken ==
    \A r \in Req :
        (/\ Answered(r)
         /\ ProtectedRoute(req[r].url)
         /\ JwtDecode(Tok(r), JWT_ACCESS_SECRET_KEY, req[r].start).err
                = "ExpiredSignatureError")
        => RejectedWith(r, HTTP_401, EXPIRE_JWT_TOKEN)

\* a protected request with an expired access token has been answered
\* without the gate having run
C5_Witness ==
    \E r \in Req :
        /\ Answered(r) /\ ProtectedRoute(req[r].url) /\ req[r].handled
        /\ JwtDecode(Tok(r), JWT_ACCESS_SECRET_KEY, req[r].start).err
               = "ExpiredSignatureError"

(* -------------------------------- C6 ----------------------------------- *)
\* C6: a request to a protected route that has neither an Authorization
\* header nor an access_token cookie is answered with HTTP 401 and the code
\* NOT_AUTHORIZATION (4010001), and call_next is not invoked for it.
C6_NoTokenIsNotAuthorized ==
    \A r \in Req :
        (/\ Answered(r)
         /\ ProtectedRoute(req[r].url)
         /\ req[r].hdr = NoToken /\ req[r].ckA = NoToken)
        => RejectedWith(r, HTTP_401, NOT_AUTHORIZATION)

\* a protected request without any access token has been answered without
\* the gate having run
C6_Witness ==
    \E r \in Req :
        /\ Answered(r) /\ ProtectedRoute(req[r].url) /\ req[r].handled
        /\ req[r].hdr = NoToken /\ req[r].ckA = NoToken

(* -------------------------------- C7 ----------------------------------- *)
\* C7: every request to the refresh-token route reaches its handler,
\* whatever access token it presents or lacks.
C7_RefreshBypassesGate ==
    \A r \in Req :
        (Answered(r) /\ req[r].url = RefreshUrl) => req[r].handled

\* a refresh request with a valid refresh_token cookie and no access token
\* has been answered
C7_Witness ==
    \E r \in Req :
        /\ Answered(r) /\ req[r].url = RefreshUrl
        /\ req[r].hdr = NoToken /\ req[r].ckA = NoToken
        /\ JwtDecode(req[r].ckR, JWT_REFRESH_SECRET_KEY, req[r].start).err = ""

(* -------------------------------- C8 ----------------------------------- *)
\* C8: a refresh request whose refresh_token is not a valid, unexpired
\* token signed with the refresh-token secret (an access token, a string
\* that is no token, an expired token) hands out no token, leaves the
\* session cache as it is and is not answered with 200.
C8_RefreshNeedsValidRefreshToken ==
    [][\A r \in Req :
          (/\ req[r].url = RefreshUrl
           /\ req[r].pc # "idle"
           /\ req'[r] # req[r]
           /\ JwtDecode(req[r].ckR, JWT_REFRESH_SECRET_KEY, req[r].start).err # "")
          => /\ issued' = issued
             /\ cache' = cache
             /\ req'[r].pc = "done" => req'[r].resp.status_code # HTTP_200]_vars

\* a refresh request that presented an access token as its refresh_token
\* has been answered
C8_Witness ==
    \E r \in Req :
        /\ Answered(r) /\ req[r].url = RefreshUrl /\ req[r].handled
        /\ req[r].ckR.form = "jwt" /\ req[r].ckR.key = JWT_ACCESS_SECRET_KEY

(* -------------------------------- C9 ----------------------------------- *)
\* C9: a request to the health-check route that presents no access token
\* reaches the handler and is not answered with 401.
C9_HealthIsPublic ==
    \A r \in Req :
        (/\ Answered(r)
         /\ req[r].url = HealthUrl
         /\ req[r].hdr = NoToken /\ req[r].ckA = NoToken)
        => req[r].handled /\ req[r].resp.status_code # HTTP_401

\* a health request without any token has been answered
C9_Witness ==
    \E r \in Req :
        /\ Answered(r) /\ req[r].url = HealthUrl
        /\ req[r].hdr = NoToken /\ req[r].ckA = NoToken

(* -------------------------------- C10 ---------------------------------- *)
\* C10: a logout request that presents no access token, or the access token
\* of a session that has been logged out, is answered with HTTP 401.
C10_LogoutIsProtected ==
    \A r \in Req :
        (/\ Answered(r)
         /\ req[r].url = LogoutUrl
         /\ (~Truthy(Tok(r)) \/ req[r].stale))
        => req[r].resp.status_code = HTTP_401

\* a second logout with the tokens of a logged-out session has been answered
C10_Witness ==
    \E r \in Req : Answered(r) /\ req[r].url = LogoutUrl /\ req[r].stale

(* -------------------------------- C11 ---------------------------------- *)
\* the store holds a row for the login_id whose password column is the
\* hash of the password
Registered(store, login_id, password) ==
    \E i \in 1..Len(store) :
        store[i].login_id = login_id /\ store[i].password = Hash(password)

\* the cached dict and the row agree on the identity of the user
SameIdentity(d, row) ==
    /\ d.user_id = row.user_id /\ d.login_id = row.login_id
    /\ d.user_name = row.user_name /\ d.email = row.email
    /\ d.user_type = row.user_type

\* C11: a login with a registered login_id and its password is answered
\* 200 with token_type "bearer" and two tokens, and when it is answered the
\* session cache holds under cache_user_info_<login_id> the identity of
\* that user and exactly the two tokens of the answer.
C11_LoginSucceedsAndCaches ==
    [][\A r \in Req :
          (/\ req[r].url = LoginUrl
           /\ AnsweredNow(r)
           /\ Registered(users, req[r].form.login_id, req[r].form.password))
          => LET l == req[r].form.login_id
                 b == req'[r].resp.body
                 d == literal_eval(cache'[CacheKey(l)].value)
             IN  /\ req'[r].resp.status_code = HTTP_200
                 /\ b.token_type = "bearer"
                 /\ Truthy(b.access_token) /\ Truthy(b.refresh_token)
                 /\ CacheKey(l) \in DOMAIN cache'
                 /\ SameIdentity(d, find_by_login_id(users, l)[1])
                 /\ d.access_token = b.access_token
                 /\ d.refresh_token = b.refresh_token]_vars

\* a login of a registered user with the right password has been answered
C11_Witness ==
    \E r \in Req :
        /\ Answered(r) /\ req[r].url = LoginUrl
        /\ Registered(users, req[r].form.login_id, req[r].form.password)
        /\ req[r].resp.status_code = HTTP_200

(* -------------------------------- C12 ---------------------------------- *)
\* C12: a login whose login_id is unknown, whose password is wrong or
\* whose stored row has no password hash hands out no token and leaves the
\* session cache as it is, at every step of the request, and is answered
\* with an error that carries no content.
C12_FailedLoginLeavesCache ==
    [][\A r \in Req :
          (/\ req[r].url = LoginUrl
           /\ req[r].pc # "idle"
           /\ req'[r] # req[r]
           /\ ~Registered(users, req[r].form.login_id, req[r].form.password))
          => /\ cache' = cache
             /\ issued' = issued
             /\ req'[r].pc = "done"
                   => /\ req'[r].resp.status_code # HTTP_200
                      /\ req'[r].resp.body = NoBody]_vars

\* a login with the wrong password has been answered while the session
\* cache holds an entry for its login_id
C12_Witness ==
    \E r \in Req :
        /\ Answered(r) /\ req[r].url = LoginUrl
        /\ exists_by_login_id(users, req[r].form.login_id)
        /\ ~Registered(users, req[r].form.login_id, req[r].form.password)
        /\ req[r].resp.status_code # HTTP_200
        /\ CacheKey(req[r].form.login_id) \in DOMAIN cache

(* -------------------------------- C13 ---------------------------------- *)
\* the stored row of a login_id the store holds
Row(store, login_id) == find_by_login_id(store, login_id)[1]

\* the login fails at the verification of the password: the row exists,
\* has a password, and the verifier returns false or raises
VerificationFails(store, login_id, password) ==
    /\ exists_by_login_id(store, login_id)
    /\ Row(store, login_id).password # NoPassword
    /\ PwdVerify(password, Row(store, login_id).password) # "true"

\* C13: the answer to a login that fails at the verification of the
\* password, by mismatch or because the verifier raised on the stored
\* value, equals (status, code, message) the answer the same login gets
\* from a store that does not hold the login_id.
C13_AntiEnumeration ==
    \A r \in Req :
        (/\ Answered(r) /\ req[r].url = LoginUrl
         /\ VerificationFails(users, req[r].form.login_id, req[r].form.password))
        => req[r].resp
              = ErrorResponse(authenticate(<< >>, req[r].form.login_id,
                                           req[r].form.password).exc)

\* a login against a row whose stored value makes the verifier raise has
\* been answered
C13_Witness ==
    \E r \in Req :
        /\ Answered(r) /\ req[r].url = LoginUrl
        /\ exists_by_login_id(users, req[r].form.login_id)
        /\ Row(users, req[r].form.login_id).password # NoPassword
        /\ PwdVerify(req[r].form.password,
                     Row(users, req[r].form.login_id).password) = "raise"

(* -------------------------------- C14 ---------------------------------- *)
\* the login_id is registered with a bcrypt hash and the password is not
\* the one that was hashed
WrongPassword(store, login_id, password) ==
    /\ exists_by_login_id(store, login_id)
    /\ Row(store, login_id).password # NoPassword
    /\ PwdVerify(password, Row(store, login_id).password) = "false"

C15_AuthenticateClearsPassword ==
    /\ \A l \in LoginIds, p \in Passwords :
          LET a == authenticate(users, l, p)
          IN  IF a.exc = NoExc
              THEN a.ent # << >> /\ a.ent[1].password = NoPassword
              ELSE a.ent = << >>
    /\ \A r \in Req :
          req[r].pc = "login_save"
          => /\ req[r].ent[1].password = NoPassword
             /\ req[r].user[1].password = NoPassword

\* authenticate has returned for a login against a row with a bcrypt hash
C15_Witness ==
    \E r \in Req :
        /\ req[r].pc = "login_save"
        /\ Row(users, req[r].form.login_id).password = Hash(req[r].form.password)

(* -------------------------------- C16 ---------------------------------- *)
\* the dict has no password field and none of its textual fields is the
\* plaintext of a password
SecretFree(d) ==
    /\ "password" \notin DOMAIN d
    /\ \A k \in DOMAIN d \cap {"login_id", "user_name", "email", "token_type", "msg"} :
          d[k] \notin Passwords

\* C16: no token handed out has a password among its claims, no entry of
\* the session cache holds one, and neither the content nor the message of
\* an answer to register, login or refresh does.
C16_NoPasswordLeaves ==
    /\ \A t \in issued : SecretFree(t.claims)
    /\ \A k \in DOMAIN cache : SecretFree(literal_eval(cache[k].value))
    /\ \A r \in Req :
          (Answered(r) /\ req[r].url \in {RegisterUrl, LoginUrl, RefreshUrl})
          => /\ SecretFree(req[r].resp.body)
             /\ req[r].resp.msg \notin Passwords
             /\ \A k \in DOMAIN req[r].resp.body \cap {"access_token", "refresh_token"} :
                   SecretFree(req[r].resp.body[k].claims)

\* a refresh has been answered with tokens while the cache holds an entry
C16_Witness ==
    \E r \in Req :
        /\ Answered(r) /\ req[r].url = RefreshUrl
        /\ req[r].resp.status_code = HTTP_200
        /\ DOMAIN cache # {} /\ issued # {}

(* -------------------------------- C17 ---------------------------------- *)
\* C17: a registration that arrives when the store already holds its
\* login_id, or its e-mail address under another login_id, changes the
\* store at none of its steps and is answered with DuplicateUser.
C17_LaterRegistrationIsDuplicate ==
    [][\A r \in RegisterReq :
          (/\ req[r].url = RegisterUrl
           /\ req[r].dup
           /\ req'[r] # req[r])
          => /\ users' = users
             /\ req'[r].pc = "done" => req'[r].resp.code = DUPLICATE_USER]_vars

\* a registration of a new login_id under an e-mail address the store
\* already holds has been answered
C17_Witness ==
    \E r \in RegisterReq :
        /\ Answered(r) /\ req[r].url = RegisterUrl /\ req[r].dup
        /\ ~exists_by_login_id(users, req[r].form.login_id)
        /\ exists_by_email(users, req[r].form.email)

(* -------------------------------- C18 ---------------------------------- *)
\* C18: a registration that passed both existence checks and finds, when
\* it inserts, that a concurrent registration has taken its login_id,
\* inserts nothing and is answered with DuplicateUser.
C18_RaceLoserIsDuplicate ==
    [][\A r \in RegisterReq :
          (/\ req[r].pc = "reg_save"
           /\ AnsweredNow(r)
           /\ exists_by_login_id(users, req[r].form.login_id))
          => /\ users' = users
             /\ req'[r].resp.code = DUPLICATE_USER]_vars

\* two registrations of one login_id ran side by side, one was inserted
\* and the other has been refused at the insert
C18_Witness ==
    \E r \in RegisterReq :
        /\ Answered(r) /\ req[r].url = RegisterUrl /\ ~req[r].dup
        /\ req[r].resp.status_code # HTTP_200
        /\ exists_by_login_id(users, req[r].form.login_id)

(* -------------------------------- C19 ---------------------------------- *)
\* C19: a registration refused because the store already holds its
\* login_id or its e-mail address is answered with HTTP 400 and the code
\* DUPLICATE_USER (4010005).
C19_DuplicateIsHttp400 ==
    \A r \in RegisterReq :
        (Answered(r) /\ req[r].url = RegisterUrl /\ req[r].dup)
        => /\ req[r].resp.status_code = HTTP_400
           /\ req[r].resp.code = DUPLICATE_USER

\* a registration of a login_id the store already holds has been answered
C19_Witness ==
    \E r \in RegisterReq :
        /\ Answered(r) /\ req[r].url = RegisterUrl /\ req[r].dup
        /\ req[r].resp.code = DUPLICATE_USER
        /\ exists_by_login_id(users, req[r].form.login_id)

(* -------------------------------- C20 ---------------------------------- *)
\* C20: when a refresh is answered 200, its answer carries a token pair
\* made at that time, and the session cache then holds under
\* cache_user_info_<login_id> an entry with exactly those two tokens whose
\* expiry is REDIS_EXPIRE_TIME.
C20_RefreshRewritesCache ==
    [][\A r \in Req :
          (/\ req[r].url = RefreshUrl
           /\ AnsweredNow(r)
           /\ req'[r].resp.status_code = HTTP_200)
          => LET l == req[r].user[1].login_id
                 b == req'[r].resp.body
                 d == literal_eval(cache'[CacheKey(l)].value)
             IN  /\ b.token_type = "bearer"
                 /\ b.access_token.exp = NowMinutes(now) + JWT_ACCESS_TOKEN_EXPIRE_MINUTES
                 /\ b.refresh_token.exp = NowMinutes(now) + JWT_REFRESH_TOKEN_EXPIRE_MINUTES
                 /\ {b.access_token, b.refresh_token} \subseteq issued'
                 /\ CacheKey(l) \in DOMAIN cache'
                 /\ d.login_id = l
                 /\ d.access_token = b.access_token
                 /\ d.refresh_token = b.refresh_token
                 /\ cache'[CacheKey(l)].ex = REDIS_EXPIRE_TIME]_vars

\* a refresh has been answered 200 and the cache entry of its user holds
\* the tokens of the answer
C20_Witness ==
    \E r \in Req :
        /\ Answered(r) /\ req[r].url = RefreshUrl
        /\ req[r].resp.status_code = HTTP_200
        /\ CacheKey(Tok(r).claims.login_id) \in DOMAIN cache
        /\ literal_eval(cache[CacheKey(Tok(r).claims.login_id)].value).access_token
              = req[r].resp.body.access_token

(* -------------------------------- C21 ---------------------------------- *)
\* C21: a refresh that presents a token of a user whose row has since been
\* deleted from the user table is answered 404 with the code NOT_FOUND_USER
\* (4010003), and its answer carries no tokens.
C21_RefreshOfDeletedUserIsNotFound ==
    \A r \in Req :
        (Answered(r) /\ req[r].url = RefreshUrl /\ req[r].gone)
        => /\ req[r].resp.status_code = HTTP_404
           /\ req[r].resp.code = NOT_FOUND_USER
           /\ "access_token" \notin DOMAIN req[r].resp.body

\* a refresh for a deleted user has been answered 200 with a token pair
C21_Witness ==
    \E r \in Req :
        /\ Answered(r) /\ req[r].url = RefreshUrl /\ req[r].gone
        /\ req[r].resp.status_code = HTTP_200
        /\ "access_token" \in DOMAIN req[r].resp.body

(* -------------------------------- C22 ---------------------------------- *)
\* the cached dict holds, field for field, what the login answered
EntryOfAnswer(d, b) ==
    /\ d.user_id = b.user_id /\ d.login_id = b.login_id
    /\ d.user_name = b.user_name /\ d.email = b.email /\ d.user_type = b.user_type
    /\ d.access_token = b.access_token /\ d.refresh_token = b.refresh_token

\* C22: with logins of one login_id in flight side by side, each login made
\* with the right password is answered 200 whatever the others do; the step
\* that answers it leaves in the session cache, field for field, the entry
\* of that login; and the cache changes at no other step.  The entry is thus
\* always, in full, that of the login answered last.
C22_ConcurrentLoginsLastWriterWins ==
    [][/\ \A r \in SessionReq :
            (/\ req[r].url = LoginUrl
             /\ AnsweredNow(r)
             /\ Registered(users, req[r].form.login_id, req[r].form.password))
            => /\ req'[r].resp.status_code = HTTP_200
               /\ CacheKey(req[r].form.login_id) \in DOMAIN cache'
               /\ EntryOfAnswer(literal_eval(cache'[CacheKey(req[r].form.login_id)].value),
                                req'[r].resp.body)
       /\ cache' # cache
            => \E r \in SessionReq :
                  /\ req[r].url = LoginUrl /\ AnsweredNow(r)
                  /\ req'[r].resp.status_code = HTTP_200
                  /\ \A k \in DOMAIN cache :
                        k # CacheKey(req[r].form.login_id)
                        => k \in DOMAIN cache' /\ cache'[k] = cache[k]]_vars

\* two logins of one user that overlapped have been answered with different
\* token pairs, and the cache holds the entry of the one whose tokens are
\* the older
C22_Witness ==
    \E r1, r2 \in SessionReq :
        /\ r1 # r2
        /\ Answered(r1) /\ req[r1].url = LoginUrl /\ req[r1].resp.status_code = HTTP_200
        /\ Answered(r2) /\ req[r2].url = LoginUrl /\ req[r2].resp.status_code = HTTP_200
        /\ req[r1].form.login_id = req[r2].form.login_id
        /\ req[r1].start = req[r2].start
        /\ req[r1].resp.body.access_token.exp < req[r2].resp.body.access_token.exp
        /\ CacheKey(req[r1].form.login_id) \in DOMAIN cache
        /\ EntryOfAnswer(literal_eval(cache[CacheKey(req[r1].form.login_id)].value),
                         req[r1].resp.body)

(* -------------------------------- C23 ---------------------------------- *)
\* C23: every entry in the session cache, whichever component wrote it, is
\* found by both readers under the login_id of its user, and is no longer
\* there once delete_user_cache has run for that login_id.
C23_OneCacheKey ==
    \A k \in DOMAIN cache :
        LET l == literal_eval(cache[k].value).login_id
        IN  /\ get_user_cache(cache, l) # << >>
            /\ service_get_user_cache(cache, l) # << >>
            /\ k \notin DOMAIN delete_user_cache(cache, l)

\* set_user_in_redis has written an entry for a user, and the middleware's
\* reader finds none for that user
C23_Witness ==
    \E k \in DOMAIN cache :
        /\ k[1] = "cahce_user_info_"
        /\ get_user_cache(cache, literal_eval(cache[k].value).login_id) = << >>

(* -------------------------------- C24 ---------------------------------- *)
\* the request ran into an exception that is no APIException: the decoding
\* of its token raised JWTError, the literal_eval of its cache lookup raised
\* ValueError, or its handler raised AttributeError
UnclassifiedRaised(r) ==
    LET v == VerifyAccess(Tok(r), req[r].start)
    IN  IF PublicBypass(req[r].url)
        THEN req[r].url = LogoutUrl /\ req[r].user = << >>
        ELSE \/ v.cls \notin APIClasses \cup {""}
             \/ v = NoExc /\ ~req[r].handled

\* the texts of the exceptions that are no APIException
UnclassifiedTexts == {JWTError.msg, ExpiredSignatureError.msg, ValueError.msg, AttributeError.msg}

\* C24: a request that ran into an exception which is no APIException, in
\* the decoding of the token, in the cache lookup or in its handler, is
\* answered 500 with the code "0000", and the answer carries no text of
\* that exception.
C24_UnclassifiedIsGeneric500 ==
    \A r \in Req :
        (Answered(r) /\ UnclassifiedRaised(r))
        => /\ req[r].resp.status_code = HTTP_500
           /\ req[r].resp.code = "0000"
           /\ req[r].resp.msg \notin UnclassifiedTexts
           /\ req[r].resp.body = NoBody

\* a request whose token passed the decoding and whose cache lookup found
\* nothing has been answered
C24_Witness ==
    \E r \in Req :
        /\ Answered(r) /\ UnclassifiedRaised(r)
        /\ ~PublicBypass(req[r].url)
        /\ VerifyAccess(Tok(r), req[r].start) = NoExc
        /\ req[r].resp.status_code = HTTP_500

(* -------------------------------- C25 ---------------------------------- *)
\* the user a request acts for: the login_id of the form of a login, the
\* login_id the presented access token names of a refresh or a logout
Subject(r) ==
    IF req[r].url = LoginUrl THEN req[r].form.login_id ELSE TokenLogin(Tok(r))

\* C25: with logins, refreshes and logouts of two users in flight side by
\* side, no step of a request that acts for one user creates, changes or
\* deletes the session-cache entry of the other user.
C25_UsersAreIndependent ==
    [][\A r \in SessionReq : \A l \in LoginIds :
          (req'[r] # req[r] /\ req[r].pc # "idle" /\ Subject(r) # l)
          => LET k == <<"cache_user_info_", l>>
             IN  /\ k \in DOMAIN cache <=> k \in DOMAIN cache'
                 /\ k \in DOMAIN cache => cache'[k] = cache[k]]_vars

\* a login of one user and a refresh of the other have been answered 200,
\* and the cache holds an entry for each of them
C25_Witness ==
    \E r1, r2 \in SessionReq :
        /\ Answered(r1) /\ req[r1].url = LoginUrl /\ req[r1].resp.status_code = HTTP_200
        /\ Answered(r2) /\ req[r2].url = RefreshUrl /\ req[r2].resp.status_code = HTTP_200
        /\ Subject(r1) # Subject(r2)
        /\ \A l \in LoginIds : <<"cache_user_info_", l>> \in DOMAIN cache

(* -------------------------------- C26 ---------------------------------- *)
\* C26: from the answer to a logout made with the access token of a user's
\* session until the next successful login of that user, the session cache
\* holds no entry for that user, whatever a refresh of the same user does
\* that was past the middleware's cache lookup when the logout ran.
C26_NoEntryAfterLogout ==
    \A l \in LoginIds :
        session[l].st = "out" => <<"cache_user_info_", l>> \notin DOMAIN cache

\* a logout made with the session's access token and a refresh of the same
\* user, in flight side by side, have both been answered: the user is logged
\* out and the cache holds an entry for them
C26_Witness ==
    \E r1, r2 \in SessionReq :
        /\ Answered(r1) /\ req[r1].url = LogoutUrl
        /\ TokenLogin(Tok(r1)) \in LoginIds
        /\ session[TokenLogin(Tok(r1))] = LoggedOut(Tok(r1))
        /\ Answered(r2) /\ req[r2].url = RefreshUrl /\ req[r2].resp.status_code = HTTP_200
        /\ TokenLogin(Tok(r2)) = TokenLogin(Tok(r1))
        /\ <<"cache_user_info_", TokenLogin(Tok(r1))>> \in DOMAIN cache

(* -------------------------------- C27 ---------------------------------- *)
\* C27: the middleware passes a request for a protected route on to the
\* handler only when the session cache holds, at the lookup, an entry for
\* the login_id of the presented access token whose access_token is that
\* very token.
C27_OnlyCurrentTokenAccepted ==
    [][\A r \in SessionReq :
          (ProtectedRoute(req'[r].url) /\ ~req[r].handled /\ req'[r].handled)
          => LET k == <<"cache_user_info_", TokenLogin(Tok(r)')>>
             IN  /\ k \in DOMAIN cache
                 /\ literal_eval(cache[k].value).access_token = Tok(r)']_vars

\* a request for a protected route has been passed on to the handler with
\* an access token other than the one in the entry the lookup returned: a
\* login or a refresh had replaced the tokens of the entry in between
C27_Witness ==
    \E r \in SessionReq :
        /\ req[r].url = OtherUrl /\ req[r].handled
        /\ req[r].user # << >>
        /\ req[r].user[1].access_token # Tok(r)

(* -------------------------------- C28 ---------------------------------- *)
\* C28: the session cache holds an entry for a user only when a login of
\* that user has been answered 200 before; an entry that is not there comes
\* into being only at the answer to a login of that user made with the
\* password of their row, or at the answer to a refresh for a user who has
\* logged in before.
C28_NoSessionWithoutLogin ==
    [][\A l \in LoginIds :
          LET k == <<"cache_user_info_", l>>
          IN  /\ k \in DOMAIN cache' => session'[l].st # "none"
              /\ (k \notin DOMAIN cache /\ k \in DOMAIN cache')
                 => \E r \in SessionReq :
                       /\ AnsweredNow(r)
                       /\ req'[r].resp.status_code = HTTP_200
                       /\ \/ /\ req[r].url = LoginUrl
                             /\ req[r].form.login_id = l
                             /\ Registered(users, l, req[r].form.password)
                          \/ /\ req[r].url = RefreshUrl
                             /\ session[l].st # "none"]_vars

\* one user has logged in and refreshed and has an entry; a logout has been
\* answered; the other user has never logged in and has no entry
C28_Witness ==
    \E r1, r2 \in SessionReq : \E l \in LoginIds :
        /\ Answered(r1) /\ req[r1].url = RefreshUrl /\ req[r1].resp.status_code = HTTP_200
        /\ Answered(r2) /\ req[r2].url = LogoutUrl
        /\ <<"cache_user_info_", TokenLogin(Tok(r1))>> \in DOMAIN cache
        /\ session[l].st = "none"
        /\ <<"cache_user_info_", l>> \notin DOMAIN cache

(* -------------------------------- C29 ---------------------------------- *)
\* C29: when the middleware passes a request for a protected route on to
\* the handler, request.state.user is set, is the entry the session cache
\* holds at that time under the login_id of the presented access token,
\* and carries that login_id.
C29_HandlerHasPrincipal ==
    [][\A r \in Req :
          (ProtectedRoute(req'[r].url) /\ ~req[r].handled /\ req'[r].handled)
          => LET k == <<"cache_user_info_", TokenLogin(Tok(r)')>>
             IN  /\ req'[r].user # << >>
                 /\ k \in DOMAIN cache
                 /\ req'[r].user[1] = literal_eval(cache[k].value)
                 /\ req'[r].user[1].login_id = Tok(r)'.claims.login_id]_vars

\* the logout handler has been invoked with no principal
C29_Witness ==
    \E r \in Req :
        /\ req[r].url = LogoutUrl /\ req[r].handled
        /\ req[r].user = << >>

(* -------------------------------- C30 ---------------------------------- *)
\* the request presents, as its access token, a token signed with the
\* refresh-token secret
PresentsRefreshToken(r) ==
    Tok(r).form = "jwt" /\ Tok(r).key = JWT_REFRESH_SECRET_KEY

\* C30: a request for a protected route that presents a token signed with
\* the refresh-token secret as its access token is never passed on to the
\* handler.
C30_RefreshTokenIsNoAccessToken ==
    \A r \in Req :
        (ProtectedRoute(req[r].url) /\ PresentsRefreshToken(r)) => ~req[r].handled

\* the logout handler has been invoked for a request that presents a
\* refresh token as its access token
C30_Witness ==
    \E r \in Req :
        /\ req[r].url = LogoutUrl /\ PresentsRefreshToken(r)
        /\ req[r].handled

(* ---------------- the credentials of a request at the gate -------------- *)
\* an Authorization header or cookie whose value is the empty string
EmptyToken == [form |-> "empty", key |-> "-", claims |-> NoClaims, exp |-> 0]

\* the header value "Bearer <token>": the middleware takes the header value
\* whole (line 62), and that string is no JWT
Bearer(token) == [token EXCEPT !.form = "bearer"]

\* a JWT signed with the server's access key whose claims carry no login_id
AnonymousTokens ==
    {[form |-> "jwt", key |-> JWT_ACCESS_SECRET_KEY,
      claims |-> [user_id |-> 1, login_id |-> NoneStr, user_name |-> "User", user_type |-> 1],
      exp |-> NowMinutes(MaxTick) + JWT_ACCESS_TOKEN_EXPIRE_MINUTES]}

\* what a client can put into the header and into the cookie
GateTokens ==
    {NoToken, EmptyToken, Malformed} \cup issued \cup {Bearer(t) : t \in issued}
        \cup AnonymousTokens

\* requests to the given routes with a header and a cookie of the given sets
GateInputs(urls, hdrs, cks) ==
    {[url |-> u, hdr |-> h, ckA |-> c, ckR |-> NoToken, form |-> NoForm] :
        u \in urls, h \in hdrs, c \in cks}

\* a request with a header and a cookie arrives
ReceiveCredentials(r, inputs) ==
    /\ req[r].pc = "idle"
    /\ \A q \in DOMAIN req : q < r => req[q].pc # "idle"
    /\ \E in \in inputs : Dispatch(r, in)
    /\ UNCHANGED <<users, cache, now, issued, session>>

\* alice logs in and calls a route behind the gate with every combination
\* of header and cookie, while the clock runs
CredentialNext ==
    \/ \E r \in SessionReq :
        \/ Receive(r, Profile({LoginUrl}, {"alice"}, {"a@x.com"}))
        \/ ReceiveCredentials(r, GateInputs({OtherUrl}, GateTokens, GateTokens))
        \/ MwCache(r)
        \/ HandleLogin(r)
        \/ LoginSave(r)
        \/ HandleNotFound(r)
        \/ Retire(r)
    \/ Clock

CredentialSpec == SessionInit /\ [][CredentialNext]_vars

\* alice logs in, and the routes outside the public surface are called with
\* a cookie that is absent, an issued token or a token without login_id,
\* while the clock runs
AnonymousNext ==
    \/ \E r \in SessionReq :
        \/ Receive(r, Profile({LoginUrl}, {"alice"}, {"a@x.com"}))
        \/ ReceiveCredentials(r, GateInputs({LogoutUrl, OtherUrl}, {NoToken},
                                             {NoToken} \cup issued \cup AnonymousTokens))
        \/ MwCache(r)
        \/ HandleLogin(r)
        \/ LoginSave(r)
        \/ HandleLogout(r)
        \/ HandleNotFound(r)
        \/ Retire(r)
    \/ Clock

AnonymousSpec == SessionInit /\ [][AnonymousNext]_vars

\* the token is a JWT signed with the access key, unexpired at time t, that
\* names a user
ValidAccessToken(token, t) ==
    /\ token.form = "jwt" /\ token.key = JWT_ACCESS_SECRET_KEY
    /\ token.exp >= NowMinutes(t)
    /\ token.claims.login_id # NoneStr

\* the header value when the request has the header, else the cookie
Presented(q) == IF q.hdr.form # "absent" THEN q.hdr ELSE q.ckA

\* the request was turned away by the gate
Rejected(q) == q.pc = "done" /\ ~q.handled /\ q.resp.status_code >= 400

\* C31: behind the bypass step the gate judges the Authorization header
\* value whenever the request has that header, and the access_token cookie
\* only when it has none: a request whose header value is no valid access
\* token is rejected whatever its cookie holds, and a request whose header
\* value is a valid access token of a cached session reaches its handler
\* whatever its cookie holds.
C31_HeaderBeforeCookie ==
    [][\A r \in SessionReq :
        LET q == req'[r]
        IN  /\ (req[r].pc = "idle" /\ q.pc # "idle" /\ ~PublicBypass(q.url))
                => IF ValidAccessToken(Presented(q), now)
                   THEN q.pc = "mw_cache"
                   ELSE Rejected(q)
            /\ (req[r].pc = "mw_cache" /\ q.pc # "mw_cache")
                => IF <<"cache_user_info_", Presented(q).claims.login_id>> \in DOMAIN cache
                   THEN q.handled /\ q.pc = "handler"
                   ELSE Rejected(q)]_vars

C31_Witness ==
    \E r1, r2 \in SessionReq :
        /\ req[r1].hdr \in {EmptyToken, Malformed}
        /\ ValidAccessToken(req[r1].ckA, req[r1].start)
        /\ <<"cache_user_info_", req[r1].ckA.claims.login_id>> \in DOMAIN cache
        /\ Rejected(req[r1])
        /\ ValidAccessToken(req[r2].hdr, req[r2].start)
        /\ req[r2].ckA = Malformed
        /\ req[r2].url = OtherUrl /\ req[r2].handled

(* -------------------------------- C32 ---------------------------------- *)
\* C32: a request to a route outside the public surface whose access token
\* is validly signed and unexpired but carries no login_id is answered, in
\* the step that receives it and so before any lookup in the session cache,
\* with HTTP 401 and code 4010001, and its handler is not invoked.
C32_NoLoginIdIsNotAuthorized ==
    [][\A r \in SessionReq :
        LET q == req'[r]
        IN  (/\ req[r].pc = "idle" /\ q.pc # "idle"
             /\ ProtectedRoute(q.url)
             /\ Presented(q) \in AnonymousTokens
             /\ Presented(q).exp >= NowMinutes(now))
            => /\ q.pc = "done"
               /\ ~q.handled
               /\ q.resp.status_code = HTTP_401
               /\ q.resp.code = "4010001"]_vars

\* a logout request with such a token has been passed on to its handler
C32_Witness ==
    \E r \in SessionReq :
        /\ req[r].url = LogoutUrl
        /\ Presented(req[r]) \in AnonymousTokens
        /\ req[r].handled

(* -------------------------------- C33 ---------------------------------- *)
\* C33: every step the middleware takes for a request (the step that
\* receives it, whether it is bypassed, rejected or sent on to the lookup,
\* and the step in which the lookup returns, with an entry or without)
\* leaves the session cache as it was; a lookup that misses stores nothing.
C33_MiddlewareOnlyReadsCache ==
    [][\A r \in Req :
        (req[r].pc \in {"idle", "mw_cache"} /\ req'[r] # req[r]) => cache' = cache]_vars

\* a request with a valid access token has missed in the cache and been
\* answered, and the cache holds nothing under its key
C33_Witness ==
    \E r \in Req :
        /\ req[r].pc = "done" /\ ~req[r].handled
        /\ ~PublicBypass(req[r].url)
        /\ ValidAccessToken(Tok(r), req[r].start)
        /\ <<"cache_user_info_", Tok(r).claims.login_id>> \notin DOMAIN cache

(* -------------------------------- C34 ---------------------------------- *)
\* C34: when TokenService.get_token has returned, the identity object that
\* was passed to it has the field values it had before the call.
C34_GetTokenLeavesArgument ==
    \A r \in Req :
        req[r].pc \in {"login_save", "refresh_save"} => req[r].arg = req[r].given

\* a login has made its tokens, and the entity it passed to get_token now
\* carries them
C34_Witness ==
    \E r \in Req :
        /\ req[r].pc = "login_save"
        /\ req[r].given[1].access_token = NoToken
        /\ req[r].arg[1].access_token = req[r].ent[1].access_token
        /\ req[r].arg[1].access_token.form = "jwt"

(* -------------------------------- C35 ---------------------------------- *)
\* the user table holds a row with the login_id / the e-mail address
LoginIdHeld(l) == \E i \in 1..Len(users) : users[i].login_id = l
EmailHeld(m) == \E i \in 1..Len(users) : users[i].email = m

\* C35: a registration checks its login_id first: when the store holds the
\* login_id it fails there, reporting the login_id, whether or not the store
\* holds its e-mail address too; it comes to the e-mail check only from a
\* login_id check that found nothing, and to the insert only from an e-mail
\* check that found nothing; the store changes only in the insert step, and
\* the row inserted holds the hashed password.
C35_RegistrationOrder ==
    [][/\ \A r \in RegisterReq :
            LET q == req[r]
                n == req'[r]
            IN  /\ (q.pc = "handler" /\ q.url = RegisterUrl /\ n # q)
                    => IF LoginIdHeld(q.form.login_id)
                       THEN /\ n.pc = "done"
                            /\ n.resp.code = DUPLICATE_USER
                            /\ n.resp.msg = q.form.login_id
                       ELSE n.pc = "reg_email"
                /\ (n.pc = "reg_email" /\ q.pc # "reg_email")
                    => q.pc = "handler" /\ ~LoginIdHeld(q.form.login_id)
                /\ (n.pc = "reg_save" /\ q.pc # "reg_save")
                    => q.pc = "reg_email" /\ ~EmailHeld(q.form.email)
       /\ users' # users
            => \E r \in RegisterReq :
                /\ req[r].pc = "reg_save" /\ req'[r].pc = "done"
                /\ Len(users') = Len(users) + 1
                /\ users'[Len(users')].login_id = req[r].form.login_id
                /\ users'[Len(users')].password = <<"bcrypt", req[r].form.password>>]_vars

\* a registration whose login_id and e-mail address are both in the store
\* has failed, reporting the login_id
C35_Witness ==
    \E r \in RegisterReq :
        /\ req[r].pc = "done" /\ req[r].url = RegisterUrl
        /\ LoginIdHeld(req[r].form.login_id) /\ EmailHeld(req[r].form.email)
        /\ req[r].resp.code = DUPLICATE_USER
        /\ req[r].resp.msg = req[r].form.login_id
        /\ Len(users) = 1

(* -------------------------------- C36 ---------------------------------- *)
\* the two tokens were made by one issuance for the user l: an access token
\* and a refresh token over the same claims, naming l, made at one time
IssuedTogether(a, f, l) ==
    /\ a.form = "jwt" /\ a.key = JWT_ACCESS_SECRET_KEY
    /\ f.form = "jwt" /\ f.key = JWT_REFRESH_SECRET_KEY
    /\ a.claims = f.claims
    /\ a.claims.login_id = l
    /\ a.exp - JWT_ACCESS_TOKEN_EXPIRE_MINUTES = f.exp - JWT_REFRESH_TOKEN_EXPIRE_MINUTES
    /\ {a, f} \subseteq issued

\* C36: every session-cache entry is stored under cache_user_info_<L> for a
\* login_id L, names L as its login_id, and holds an access token and a
\* refresh token made by one issuance for L; no entry lacks a token or
\* holds the tokens of two issuances.
C36_EntryHoldsOneIssuance ==
    \A k \in DOMAIN cache :
        LET e == cache[k].value.repr
        IN  /\ k[1] = "cache_user_info_"
            /\ e.login_id = k[2]
            /\ e.login_id \in LoginIds
            /\ IssuedTogether(e.access_token, e.refresh_token, k[2])

\* the entry of alice holds the token pair of a later issuance than her
\* first
C36_Witness ==
    /\ now = 1
    /\ <<"cache_user_info_", "alice">> \in DOMAIN cache
    /\ LET e == cache[<<"cache_user_info_", "alice">>].value.repr
       IN  /\ e.access_token.exp = NowMinutes(1) + JWT_ACCESS_TOKEN_EXPIRE_MINUTES
           /\ \E t \in issued : t.key = JWT_ACCESS_SECRET_KEY /\ t.exp < e.access_token.exp

(* -------------------------------- C37 ---------------------------------- *)
\* the fields of a cached dict that say who the user is
IdentityOf(d) ==
    [user_id |-> d.user_id, login_id |-> d.login_id, user_name |-> d.user_name,
     user_type |-> d.user_type, email |-> d.email]

\* C37: when a refresh writes the session cache, the tokens it stores and
\* returns carry the user_id and login_id of the principal the middleware
\* attached, the entry is written under the principal's login_id with the
\* principal's user_id, login_id, user_name, user_type and email, these
\* five fields are those of the entry it replaces when there is one, and
\* no other entry changes.
C37_RefreshPreservesIdentity ==
    [][\A r \in SessionReq :
        (req[r].pc = "refresh_save" /\ req'[r].pc = "done")
        => LET p == req[r].user[1]
               k == <<"cache_user_info_", p.login_id>>
               e == cache'[k].value.repr
           IN  /\ k \in DOMAIN cache'
               /\ IdentityOf(e) = IdentityOf(p)
               /\ k \in DOMAIN cache => IdentityOf(e) = IdentityOf(cache[k].value.repr)
               /\ \A t \in {e.access_token, e.refresh_token} :
                     /\ t.claims.user_id = p.user_id
                     /\ t.claims.login_id = p.login_id
               /\ req'[r].resp.body.access_token = e.access_token
               /\ \A x \in DOMAIN cache' \ {k} : x \in DOMAIN cache /\ cache'[x] = cache[x]]_vars

\* a refresh has replaced the entry of alice with one that holds other
\* tokens than the request presented
C37_Witness ==
    \E r \in SessionReq :
        /\ req[r].url = RefreshUrl /\ req[r].pc = "done"
        /\ req[r].resp.status_code = HTTP_200
        /\ <<"cache_user_info_", "alice">> \in DOMAIN cache
        /\ LET e == cache[<<"cache_user_info_", "alice">>].value.repr
           IN  /\ e.access_token = req[r].ent[1].access_token
               /\ e.access_token # Tok(r)
               /\ e.email = "a@x.com"

(* -------------------------------- C38 ---------------------------------- *)
\* C38: a request starts with no principal; the principal the middleware
\* attaches to a request is the cached entry of that request's own access
\* token, whatever other requests are in flight and whatever principals
\* they hold; and a step of one request changes the principal of no other.
C38_PrincipalIsPerRequest ==
    [][\A r \in SessionReq :
        /\ (req[r].pc = "idle" /\ req'[r].pc # "idle") => req'[r].user = << >>
        /\ (req[r].pc = "mw_cache" /\ req'[r].pc = "handler")
            => /\ req'[r].user # << >>
               /\ req'[r].user[1].login_id = Tok(r).claims.login_id
        /\ req'[r].user # req[r].user
            => \A q \in SessionReq \ {r} : req'[q] = req[q]]_vars

\* two requests are in flight at once, each past the gate with the principal
\* of another user
C38_Witness ==
    \E r1, r2 \in SessionReq :
        /\ req[r1].url = RefreshUrl /\ req[r1].pc = "handler"
        /\ req[r2].url = RefreshUrl /\ req[r2].pc = "handler"
        /\ req[r1].user[1].login_id = "alice"
        /\ req[r2].user[1].login_id = "bob"

====
